---- MODULE Spec2Model ----
(***************************************************************************)
(* State-machine model of autocnet/transformation/transformations.py:      *)
(* the versioned 3x3 transformation matrix (TransformationMatrix) and its  *)
(* two concrete classes, FundamentalMatrix and Homography.                 *)
(*                                                                         *)
(* One object is modelled.  Its state is the live matrix, the live mask,   *)
(* the attached correspondences, the bounded history (_action_stack) with  *)
(* its cursor (_current_action_stack), the observer set and the cached     *)
(* condition.  Every public method is one action; an exception raised in   *)
(* the middle of a method leaves the assignments made before it in place.  *)
(*                                                                         *)
(* Matrices are 3x3 tuples of integers.  The matrices that enter the model *)
(* (constructor arguments, estimator results, optimiser results) are       *)
(* diagonal, so that their singular values are the absolute values of the  *)
(* diagonal and the SVD of the code is computed exactly.                   *)
(***************************************************************************)
EXTENDS Integers, Sequences, FiniteSets, TLC

\* ------------------------------------------------------------------ bounds

\* Number of correspondences attached to the object (rows of x1, x2, mask).
NumPoints == 9
\* refine_matches thresholds are drawn from 0..MaxThreshold.
MaxThreshold == 2
\* rollback/rollforward step counts are drawn from -MaxStep..MaxStep.
MaxStep == 2
\* An out-of-range cursor (see rollback) is followed up to this magnitude.
CursorCap == 3
\* Successful refine_matches calls followed under Spec.
MaxRefines == 2
\* Successful refine_matches calls followed under SpecDeep.
DeepRefines == 11

\* -------------------------------------------------------- program constants

\* deque(maxlen=10)
MaxLen == 10
\* MLE needs at least 9 inlying correspondences in each view.
MinInliers == 9

\* ------------------------------------------------------------ value domains

Index == 1..NumPoints
Thresholds == 0..MaxThreshold
Steps == (0 - MaxStep)..MaxStep

\* A Python attribute that is either None or a value: NoMask is the None of
\* a mask (a set of rows), None the None of a tuple-valued attribute.
NoMask == [some |-> FALSE, val |-> {}]
None == [some |-> FALSE, val |-> << >>]
Some(v) == [some |-> TRUE, val |-> v]

Abs(n) == IF n < 0 THEN 0 - n ELSE n

RECURSIVE GCD(_, _)
GCD(a, b) == IF b = 0 THEN a ELSE GCD(b, a % b)

Diag(a, b, c) == << <<a, 0, 0>>, <<0, b, 0>>, <<0, 0, c>> >>

\* The matrix product a.dot(b) of two matrices with 3 rows / inner size n.
Dot(A, B, n) ==
    [i \in 1..3 |-> [j \in 1..3 |->
        LET term[k \in 0..n] == IF k = 0 THEN 0 ELSE term[k - 1] + A[i][k] * B[k][j]
        IN  term[n]]]

\* np.linalg.det
Det(F) ==
      F[1][1] * (F[2][2] * F[3][3] - F[2][3] * F[3][2])
    - F[1][2] * (F[2][1] * F[3][3] - F[2][3] * F[3][1])
    + F[1][3] * (F[2][1] * F[3][2] - F[2][2] * F[3][1])

\* np.linalg.matrix_rank: the number of non-zero singular values, which for
\* an integer matrix is the size of its largest non-vanishing minor.
rank(F) ==
    IF Det(F) # 0 THEN 3
    ELSE IF \E i, j, k, l \in 1..3 :
                i < j /\ k < l /\ F[i][k] * F[j][l] - F[i][l] * F[j][k] # 0 THEN 2
    ELSE IF \E i, j \in 1..3 : F[i][j] # 0 THEN 1
    ELSE 0

\* np.linalg.svd(F, compute_uv=False) of a diagonal matrix: the absolute
\* values of the diagonal in descending order.
SingularValues(F) ==
    LET d == [i \in 1..3 |-> Abs(F[i][i])]
        hi == CHOOSE i \in 1..3 : \A j \in 1..3 : d[j] <= d[i]
        lo == CHOOSE i \in 1..3 \ {hi} : \A j \in 1..3 \ {hi} : d[i] <= d[j]
        mid == CHOOSE i \in 1..3 : i # hi /\ i # lo
    IN  <<d[hi], d[mid], d[lo]>>

\* s[0] / s[1] as a fraction in lowest terms; <<1, 0>> is inf and <<0, 0>>
\* is nan (numpy floats do not raise on a zero divisor).
ConditionOf(F) ==
    LET s == SingularValues(F)
        g == GCD(s[1], s[2])
    IN  IF g = 0 THEN <<0, 0>> ELSE <<s[1] \div g, s[2] \div g>>

\* _enforce_singularity_constraint's f1 = u.dot(diag([d[0], d[1], 0])).dot(vt)
\* for a diagonal matrix: the diagonal entry of least magnitude is zeroed.
ZeroSmallestSingularValue(F) ==
    LET d == [i \in 1..3 |-> Abs(F[i][i])]
        hi == CHOOSE i \in 1..3 : \A j \in 1..3 : d[j] <= d[i]
        lo == CHOOSE i \in 1..3 \ {hi} : \A j \in 1..3 \ {hi} : d[i] <= d[j]
    IN  [F EXCEPT ![lo][lo] = 0]

\* The matrix the object holds after self._enforce_singularity_constraint().
EnforceSingularity(F) == IF rank(F) # 2 THEN ZeroSmallestSingularValue(F) ELSE F

\* camera_utils.crossform: the skew-symmetric cross-product matrix [t]_x.
Crossform(t) ==
    << <<0, 0 - t[3], t[2]>>, <<t[3], 0, 0 - t[1]>>, <<0 - t[2], t[1], 0>> >>

\* gold_standard_f = crossform(P[:, 3]).dot(P[:, :3]) for a 3x4 camera P.
GoldStandardF(P) ==
    Dot(Crossform(<<P[1][4], P[2][4], P[3][4]>>),
        [i \in 1..3 |-> <<P[i][1], P[i][2], P[i][3]>>], 3)

\* ---------------------------------------------------------- correspondences

\* The keypoints handed to compute, in homogeneous coordinates.
Kp1 == [i \in Index |-> <<1, 1, 1>>]
Kp2 == [i \in Index |-> <<i % 4, 0 - (i % 3), 1>>]

\* normalize_vector followed by the comparison with a threshold: the row
\* l is divided by sqrt(l[0]^2 + l[1]^2) and |l_norm . q| <= t is decided
\* on the squares.  A zero norm gives a non-finite error, which is not <= t.
NormalizedWithin(l, q, t) ==
    LET n2 == l[1] * l[1] + l[2] * l[2]
        s == l[1] * q[1] + l[2] * q[2] + l[3] * q[3]
    IN  t >= 0 /\ n2 > 0 /\ s * s <= t * t * n2

\* compute_error(x, x1)[i] <= t, with l = x.dot(self.T) the epipolar line.
ErrorWithin(F, p, q, t) ==
    LET l == [j \in 1..3 |-> p[1] * F[j][1] + p[2] * F[j][2] + p[3] * F[j][3]]
    IN  NormalizedWithin(l, q, t)

\* The comparison inverted: the rows whose error is not <= threshold.
RefinedMask_flipped(F, x, y, t) == {i \in Index : ~ErrorWithin(F, x[i], y[i], t)}

\* refine_matches: error = self.compute_error(self.x1, self.x2);
\* self.mask = error <= threshold  (the rows that are True).
RefinedMask(F, x, y, t) == {i \in Index : ErrorWithin(F, x[i], y[i], t)}

\* ------------------------------------------------------------------ history

\* A deque that drops from the right instead of from the left.
DequeAppend_dropnewest(stack, pkg) ==
    IF Len(stack) = MaxLen THEN stack ELSE Append(stack, pkg)

\* deque(maxlen=10).append: a full deque drops its oldest entry.
DequeAppend(stack, pkg) ==
    IF Len(stack) = MaxLen THEN Append(Tail(stack), pkg) ELSE Append(stack, pkg)

\* deque[idx] with Python's indexing: a negative index counts from the
\* right; InRange tells whether the access raises IndexError.
InRange(stack, idx) == 0 - Len(stack) <= idx /\ idx <= Len(stack) - 1
DequeGet(stack, idx) == IF idx < 0 THEN stack[Len(stack) + idx + 1] ELSE stack[idx + 1]

\* -------------------------------------------------------------------- state

VARIABLES
    cls,                    \* the object's class
    arr,                    \* the live 3x3 matrix (the ndarray contents)
    mask,                   \* self.mask: None or Some(set of True rows)
    x1, x2,                 \* self.x1, self.x2: None or Some(points)
    _action_stack,          \* the history: a deque of {'arr', 'mask'}
    _current_action_stack,  \* the cursor into the history
    _observers,             \* the set of subscribed callables
    _condition,             \* the cached condition: None or Some(value)
    notified,               \* calls made to each observer by the last operation
    last,                   \* the last operation called, its argument, how it ended
    prev,                   \* the live state and `last` as that operation found them
    appended                \* every package ever appended to the history

vars == <<cls, arr, mask, x1, x2, _action_stack, _current_action_stack,
          _observers, _condition, notified, last, prev, appended>>

Classes == {"FundamentalMatrix", "Homography"}
Observers == {"f", "g"}

\* The ndarray a matrix is constructed from.
InitialMatrices == {Diag(0, 0, 0), Diag(4, 2, 1)}

\* The float array self[:] = None leaves behind: every entry is nan.
AllNaN == << >>

StatePackage(F, m) == [arr |-> F, mask |-> m]
\* History variables: `last` and `prev` observe the calls, they are no part
\* of the object.
Ended(op, outcome, arg) == [op |-> op, outcome |-> outcome, arg |-> arg]
\* What an operation finds when it is called.
Before ==
    [arr |-> arr, mask |-> mask, cursor |-> _current_action_stack,
     op |-> last.op, outcome |-> last.outcome, arg |-> last.arg]
NoCalls == [o \in Observers |-> 0]

\* _notify_subscribers: one call of update_func for each member of the set.
_notify_subscribers == [o \in Observers |-> IF o \in _observers THEN 1 ELSE 0]

\* TransformationMatrix.__new__ (and the attributes __array_finalize__ sets).
New(c, F) ==
    /\ cls = c
    /\ arr = F
    /\ mask = Some(Index)
    /\ x1 = None
    /\ x2 = None
    /\ _action_stack = <<StatePackage(F, NoMask)>>
    /\ _current_action_stack = 0
    /\ _observers = {}
    /\ _condition = None
    /\ notified = NoCalls
    /\ last = Ended("__new__", "ok", 0)
    /\ prev = [arr |-> F, mask |-> Some(Index), cursor |-> 0,
               op |-> "__new__", outcome |-> "ok", arg |-> 0]
    /\ appended = <<StatePackage(F, NoMask)>>

\* ----------------------------------------------------------------- actions

\* subscribe(func)
subscribe(func) ==
    /\ prev' = Before
    /\ _observers' = _observers \cup {func}
    /\ notified' = NoCalls
    /\ last' = Ended("subscribe", "ok", 0)
    /\ UNCHANGED <<cls, arr, mask, x1, x2, _action_stack, _current_action_stack,
                   _condition, appended>>

\* Reading the condition property.  A cached value that is truthy is
\* returned as it is; svd of an all-nan matrix does not converge.
condition ==
    /\ prev' = Before
    /\ notified' = NoCalls
    /\ IF _condition.some
         THEN /\ last' = Ended("condition", "ok", 0)
              /\ UNCHANGED _condition
         ELSE IF arr = AllNaN
         THEN /\ last' = Ended("condition", "LinAlgError", 0)
              /\ UNCHANGED _condition
         ELSE /\ last' = Ended("condition", "ok", 0)
              /\ _condition' = Some(ConditionOf(arr))
    /\ UNCHANGED <<cls, arr, mask, x1, x2, _action_stack, _current_action_stack,
                   _observers, appended>>

\* The tail shared by rollback and rollforward, from state = stack[idx] on.
\* Only FundamentalMatrix defines _clean_attrs: on a Homography the call
\* raises AttributeError after the matrix and the mask have been restored.
Restore(op, n, idx) ==
    /\ prev' = Before
    /\ _current_action_stack' = idx
    /\ IF ~InRange(_action_stack, idx)
         THEN /\ last' = Ended(op, "IndexError", n)
              /\ notified' = NoCalls
              /\ UNCHANGED <<arr, mask, _condition>>
         ELSE LET state == DequeGet(_action_stack, idx) IN
              /\ arr' = state.arr
              /\ mask' = state.mask
              /\ IF cls = "FundamentalMatrix"
                   THEN /\ _condition' = None
                        /\ notified' = _notify_subscribers
                        /\ last' = Ended(op, "ok", n)
                   ELSE /\ UNCHANGED _condition
                        /\ notified' = NoCalls
                        /\ last' = Ended(op, "AttributeError", n)
    /\ UNCHANGED <<cls, x1, x2, _action_stack, _observers, appended>>

\* rollback(n)
rollback(n) ==
    LET idx0 == _current_action_stack - n
        idx == IF idx0 < 0 THEN 0 ELSE idx0
    IN  /\ InRange(_action_stack, idx) \/ Abs(idx) <= CursorCap
        /\ Restore("rollback", n, idx)

\* rollforward(n)
rollforward(n) ==
    LET idx0 == _current_action_stack + n
        idx == IF idx0 > Len(_action_stack) - 1 THEN Len(_action_stack) - 1 ELSE idx0
    IN  /\ InRange(_action_stack, idx) \/ Abs(idx) <= CursorCap
        /\ Restore("rollforward", n, idx)

\* FundamentalMatrix.refine_matches(threshold); at most `cap` successful
\* calls are followed.  self.mask.copy() raises on a None mask and
\* compute_error raises on x1 = None, both before any assignment.
refine_matches(threshold, cap) ==
    /\ prev' = Before
    /\ cls = "FundamentalMatrix"
    /\ IF ~mask.some \/ ~x1.some
         THEN /\ last' = Ended("refine_matches", "AttributeError", threshold)
              /\ notified' = NoCalls
              /\ UNCHANGED <<arr, mask, _action_stack, _current_action_stack,
                             _condition, appended>>
         ELSE LET state_package == StatePackage(arr, mask) IN
              /\ Len(appended) <= cap
              /\ mask' = Some(RefinedMask(arr, x1.val, x2.val, threshold))
              /\ _action_stack' = DequeAppend(_action_stack, state_package)
              /\ _current_action_stack' = Len(_action_stack') - 1
              /\ _condition' = None
              /\ notified' = _notify_subscribers
              /\ last' = Ended("refine_matches", "ok", threshold)
              /\ appended' = Append(appended, state_package)
              /\ UNCHANGED arr
    /\ UNCHANGED <<cls, x1, x2, _observers>>

\* ------------------------------------------------------------------ compute

\* The method strings a caller passes; "bogus" stands for any other string.
Methods == {"mle", "ransac", "lmeds", "normal", "8point", "bogus"}
FundamentalMethods == {"mle", "ransac", "lmeds", "normal", "8point"}
HomographyMethods == {"ransac", "lmeds", "normal"}

\* Matrices the robust estimator returns: of rank 3, 2 and 1.
EstimatedMatrices == {Diag(6, 3, 1), Diag(2, 1, 0), Diag(1, 0, 0)}
\* Inlier masks the robust estimator returns: every row, and too few for MLE.
EstimatorMasks == {Index, 1..(MinInliers - 1)}

\* What cv2.findFundamentalMat / cv2.findHomography return: nothing (the
\* matrix and the mask are None), three stacked candidates (a 9x3 array,
\* fundamental matrices only) or one 3x3 matrix, the last two with a mask.
NoEstimate == [kind |-> "none", F |-> Diag(0, 0, 0), mask |-> {}]
FundamentalEstimates ==
    {NoEstimate}
    \cup {[kind |-> "three", F |-> Diag(0, 0, 0), mask |-> m] : m \in EstimatorMasks}
    \cup {[kind |-> "one", F |-> F, mask |-> m] : F \in EstimatedMatrices, m \in EstimatorMasks}
HomographyEstimates ==
    {NoEstimate}
    \cup {[kind |-> "one", F |-> F, mask |-> m] : F \in EstimatedMatrices, m \in EstimatorMasks}

\* result.x.reshape(3, 4) of optimize.least_squares: the refined camera.
OptimizerResults == { << <<0, 1, 0, 0>>, <<0 - 3, 0, 0, 0>>, <<0, 0, 1, 1>> >> }

\* FundamentalMatrix.compute(kp1, kp2, method), with `est` the estimator's
\* answer.  The singularity constraint is enforced on the matrix the object
\* holds when the call is made; the estimate is assigned afterwards.
FundamentalMatrix_compute(method, est) ==
    /\ prev' = Before
    /\ cls = "FundamentalMatrix"
    /\ notified' = NoCalls
    /\ IF method \notin FundamentalMethods
         THEN /\ last' = Ended("compute", "ValueError", 0)
              /\ UNCHANGED <<arr, mask, x1, x2>>
         ELSE IF est.kind = "none"
         THEN /\ last' = Ended("compute", "NoMask", 0)
              /\ UNCHANGED <<arr, mask, x1, x2>>
         ELSE /\ x1' = Some(Kp1)
              /\ x2' = Some(Kp2)
              /\ mask' = Some(est.mask)
              /\ IF est.kind = "three"
                   THEN /\ arr' = EnforceSingularity(arr)
                        /\ last' = Ended("compute", "ThreeCandidates", 0)
                   ELSE IF method # "mle"
                   THEN /\ arr' = est.F
                        /\ last' = Ended("compute", "ok", 0)
                   ELSE IF Cardinality(est.mask) < MinInliers
                   THEN /\ arr' = est.F
                        /\ last' = Ended("compute", "MLESkipped", 0)
                   ELSE /\ \E P \in OptimizerResults : arr' = GoldStandardF(P)
                        /\ last' = Ended("compute", "ok", 0)
    /\ UNCHANGED <<cls, _action_stack, _current_action_stack, _observers,
                   _condition, appended>>

\* Homography.compute(kp1, kp2, method).  With no estimate the mask becomes
\* None and self[:] = None either fills a float array with nan or raises
\* TypeError on an integer array.
Homography_compute(method, est) ==
    /\ prev' = Before
    /\ cls = "Homography"
    /\ notified' = NoCalls
    /\ x1' = Some(Kp1)
    /\ x2' = Some(Kp2)
    /\ IF method \notin HomographyMethods
         THEN /\ last' = Ended("compute", "ValueError", 0)
              /\ UNCHANGED <<arr, mask>>
         ELSE IF est.kind = "none"
         THEN /\ mask' = NoMask
              /\ \E filled \in BOOLEAN :
                    IF filled
                      THEN /\ arr' = AllNaN
                           /\ last' = Ended("compute", "NoEstimate", 0)
                      ELSE /\ arr' = arr
                           /\ last' = Ended("compute", "TypeError", 0)
         ELSE /\ mask' = Some(est.mask)
              /\ arr' = est.F
              /\ last' = Ended("compute", "ok", 0)
    /\ UNCHANGED <<cls, _action_stack, _current_action_stack, _observers,
                   _condition, appended>>

\* ----------------------------------------------------------- specifications

\* The history of one FundamentalMatrix: estimation by one method, mask
\* refinement, and navigation by every step count, negative ones included.
HistoryEstimates ==
    {[kind |-> "one", F |-> Diag(2, 1, 0), mask |-> Index],
     [kind |-> "one", F |-> Diag(6, 3, 1), mask |-> 1..(MinInliers - 1)]}

Init == New("FundamentalMatrix", Diag(0, 0, 0))

Next ==
    \/ \E est \in HistoryEstimates : FundamentalMatrix_compute("ransac", est)
    \/ \E t \in Thresholds : refine_matches(t, MaxRefines)
    \/ \E n \in Steps : rollback(n)
    \/ \E n \in Steps : rollforward(n)

Spec == Init /\ [][Next]_vars

\* The same object followed past the capacity of its history.
NextDeep ==
    \/ FundamentalMatrix_compute("ransac", [kind |-> "one", F |-> Diag(2, 1, 0), mask |-> Index])
    \/ refine_matches(1, DeepRefines)
    \/ rollback(MaxLen + 1)
    \/ rollforward(1)

SpecDeep == Init /\ [][NextDeep]_vars

\* Estimation in both classes: every method, every answer of the estimator,
\* every rank of the matrix the object starts with, and the cached condition.
InitCompute == \E c \in Classes, F \in InitialMatrices : New(c, F)

NextCompute ==
    \/ \E m \in Methods, est \in FundamentalEstimates : FundamentalMatrix_compute(m, est)
    \/ \E m \in Methods, est \in HomographyEstimates : Homography_compute(m, est)
    \/ condition
    \/ rollback(1)
    \/ rollforward(1)

SpecCompute == InitCompute /\ [][NextCompute]_vars

\* Observers subscribed to one FundamentalMatrix.
NextObservers ==
    \/ \E func \in Observers : subscribe(func)
    \/ \E m \in {"mle", "8point"}, est \in HistoryEstimates : FundamentalMatrix_compute(m, est)
    \/ \E t \in {0, 1} : refine_matches(t, 2)
    \/ rollback(1)
    \/ rollforward(1)

SpecObservers == Init /\ [][NextObservers]_vars

\* ------------------------------------------------------------------- claims

Navigation == {"rollback", "rollforward"}
\* How a compute call that stored an estimate ends.
Stored == {"ok", "MLESkipped"}
\* How a compute call that produced no estimate ends.
Failed == {"ValueError", "NoMask", "ThreeCandidates", "NoEstimate", "TypeError"}

\* C1: rollback(k) followed by rollforward(k), with 1 <= k <= cursor, leaves
\* the live matrix and the live mask as they were just before the rollback.
C1_UndoRedoRoundTrip ==
    [][(/\ last.op = "rollback" /\ last.outcome = "ok"
        /\ 1 <= last.arg /\ last.arg <= prev.cursor
        /\ prev.cursor <= Len(_action_stack) - 1
        /\ last'.op = "rollforward" /\ last'.arg = last.arg)
       => (arr' = prev.arr /\ mask' = prev.mask)]_vars

\* C2: the history is never empty, the cursor stays within
\* 0..len(history) - 1 for every step count, and no navigation call fails.
C2_CursorInvariant ==
    /\ Len(_action_stack) >= 1
    /\ 0 <= _current_action_stack
    /\ _current_action_stack <= Len(_action_stack) - 1
    /\ last.op \in Navigation => last.outcome = "ok"

\* C3: a compute call that fails to produce an estimate leaves the matrix,
\* the mask, the history and the cursor as they were.
C3_FailureIsAtomic ==
    [][(last'.op = "compute" /\ last'.outcome \in Failed)
       => (/\ arr' = arr
           /\ mask' = mask
           /\ _action_stack' = _action_stack
           /\ _current_action_stack' = _current_action_stack)]_vars

\* C4: when FundamentalMatrix.compute returns after storing an estimate, the
\* matrix the object holds has rank 2.
C4_RankTwoAfterCompute ==
    (cls = "FundamentalMatrix" /\ last.op = "compute" /\ last.outcome \in Stored)
    => rank(arr) = 2

\* C5: the history never exceeds 10 entries; after more than 10 refinements
\* it holds exactly the 10 most recently appended snapshots, in order; and a
\* rollback by more than the cursor lands on index 0 and restores that entry
\* without raising.
C5_HistoryBound ==
    /\ Len(_action_stack) <= MaxLen
    /\ Len(appended) - 1 > MaxLen => Len(_action_stack) = MaxLen
    /\ _action_stack =
         SubSeq(appended, Len(appended) - Len(_action_stack) + 1, Len(appended))
    /\ (last.op = "rollback" /\ last.arg > prev.cursor)
       => /\ last.outcome = "ok"
          /\ _current_action_stack = 0
          /\ arr = _action_stack[1].arr
          /\ mask = _action_stack[1].mask

\* A rollback past the start of a history that has evicted entries.
C5_Witness ==
    /\ Len(appended) - 1 > MaxLen
    /\ last.op = "rollback" /\ last.outcome = "ok"
    /\ prev.cursor > 0 /\ last.arg > prev.cursor
    /\ _current_action_stack = 0
    /\ _action_stack[1] # appended[1]

\* C6: an operation that commits a change (refine_matches, rollback,
\* rollforward, a compute that stored) calls every subscribed observer
\* exactly once, and nobody else.
C6_ObserversNotified ==
    (/\ last.op \in {"refine_matches", "rollback", "rollforward", "compute"}
     /\ last.outcome \in Stored)
    => \A o \in Observers : notified[o] = IF o \in _observers THEN 1 ELSE 0

\* C7: once a FundamentalMatrix has been computed (under Spec every compute
\* stores its estimate), the live mask is a boolean labeling of the attached
\* correspondences, never None, whatever refinement and navigation follow.
C7_MaskNeverAbsent ==
    (cls = "FundamentalMatrix" /\ x1.some) => (mask.some /\ mask.val \subseteq Index)

\* C8: of two refine_matches calls in a row, the second with the larger
\* threshold, the second leaves a mask that contains the first one's mask.
C8_MaskMonotone ==
    (/\ last.op = "refine_matches" /\ prev.op = "refine_matches"
     /\ last.arg > prev.arg)
    => prev.mask.val \subseteq mask.val

\* Two successful refinements in a row, the second re-admitting rows the
\* first had rejected.
C8_Witness ==
    /\ last.op = "refine_matches" /\ last.outcome = "ok"
    /\ prev.op = "refine_matches" /\ prev.outcome = "ok"
    /\ last.arg > prev.arg
    /\ prev.mask.val # {}
    /\ prev.mask.val # mask.val

C10_AppendOnly ==
    [][(last'.op = "refine_matches" /\ x1.some)
       => (/\ _action_stack' =
                Append(IF Len(_action_stack) = MaxLen
                         THEN Tail(_action_stack) ELSE _action_stack,
                       StatePackage(arr, mask))
           /\ _current_action_stack' = Len(_action_stack') - 1
           /\ arr' = arr)]_vars
====
